---- MODULE Spec2Model ----
(***************************************************************************)
(* unos-tab-sorter: the background message handlers of background_v2.js    *)
(* (incremental move) and background_v3.js (recreate), run against a host  *)
(* that holds windows, tab strips, the extension's local storage and the   *)
(* downloads it was asked for.  Every host call is one atomic step of the  *)
(* host; between two host calls of a command the user may act.             *)
(***************************************************************************)
EXTENDS Integers, Sequences, FiniteSets, TLC

\* ---------------------------------------------------------------- bounds
MaxInitTabs == 2      \* tabs open when the extension starts
MaxEnv == 1           \* out-of-band user actions in one behaviour
MaxMoveTabs == 3      \* tabs open when only sortTabsMove is followed
MaxHostLen == 5       \* characters of a hostname given to extractTLD
MaxFnTabs == 3        \* tabs of a snapshot given to the grouping
MaxFieldLen == 3      \* characters of a title or URL given to convertToCSV
MaxTimeTabs == 3      \* tabs created while tabOpenTimes is followed
MaxClock == 3         \* values Date.now() takes while tabOpenTimes is followed

MaxWinId == MaxInitTabs + MaxInitTabs      \* window handles the host can issue
MaxOwnTab == MaxInitTabs + MaxInitTabs     \* tab handles of initial and created tabs
MaxTabId == MaxOwnTab + MaxEnv             \* with the handles of the user's tabs

TimeTabs == 1..MaxTimeTabs
WinIds == 1..MaxWinId
TabIds == 1..MaxTabId

\* ------------------------------------------------------------------ URLs
\* The URLs tabs show.  UrlBad is a string new URL() rejects.  A text the code
\* takes apart (a hostname, a key, a CSV field) is the sequence of its
\* characters, each a string of one character.
UrlA == "https://a.c/"
UrlB == "https://g.b.c/"
UrlInternal == "chrome://e/"
UrlBad == ""
Urls == {UrlA, UrlB, UrlInternal, UrlBad}
NoUrl == "none"
\* what the user opens out-of-band: a web page or an internal page
UserUrls == {UrlA, UrlInternal}

\* tab.url.startsWith('chrome://')
startsWithChrome(u) == u = UrlInternal

\* new URL(tab.url) does not throw
urlParses(u) == u # UrlBad

\* new URL(tab.url).hostname
hostname(u) ==
    CASE u = UrlA -> <<"a", ".", "c">>
      [] u = UrlB -> <<"g", ".", "b", ".", "c">>
      [] u = UrlInternal -> <<"e">>
      [] OTHER -> <<>>

\* the characters of hostnames and keys, in the order localeCompare ranks
\* them: punctuation before letters
Collation == <<".", "a", "b", "c", "e", "g", "k", "n", "o", "u", "w">>
charRank(c) == CHOOSE i \in 1..Len(Collation) : Collation[i] = c

\* String.prototype.split('.'): the pieces between the dots, [""] for ""
RECURSIVE split(_)
split(s) ==
    IF s = <<>> THEN << <<>> >>
    ELSE LET rest == split(Tail(s))
         IN IF Head(s) = "." THEN << <<>> >> \o rest
            ELSE << <<Head(s)>> \o Head(rest) >> \o Tail(rest)

\* Array.prototype.slice(-2)
slice2(parts) ==
    IF Len(parts) > 2 THEN SubSeq(parts, Len(parts) - 1, Len(parts)) ELSE parts

\* Array.prototype.join('.')
RECURSIVE join(_)
join(parts) ==
    IF parts = <<>> THEN <<>>
    ELSE IF Len(parts) = 1 THEN parts[1]
    ELSE parts[1] \o <<".">> \o join(Tail(parts))

\* hostname.split('.').slice(-2).join('.')
sliceLast2(h) == join(slice2(split(h)))

\* the string "unknown"
UnknownKey == <<"u", "n", "k", "n", "o", "w", "n">>

\* mutant of extractTLDOf: the whole hostname is the key
extractTLDWhole(parsed, h) == IF ~parsed THEN UnknownKey ELSE h

\* the body of extractTLD of background_v3.js, given whether new URL(url)
\* returned and the hostname it gave
extractTLDOf(parsed, h) ==
    IF ~parsed THEN UnknownKey
    ELSE IF Len(split(h)) > 1 THEN join(slice2(split(h))) ELSE h

\* extractTLD of background_v3.js
extractTLD(u) == extractTLDOf(urlParses(u), hostname(u))

\* a.localeCompare(b) < 0 on keys: character by character, a proper prefix
\* first
RECURSIVE localeLess(_, _)
localeLess(a, b) ==
    IF b = <<>> THEN FALSE
    ELSE IF a = <<>> THEN TRUE
    ELSE IF Head(a) # Head(b) THEN charRank(Head(a)) < charRank(Head(b))
    ELSE localeLess(Tail(a), Tail(b))

\* Array.prototype.sort with (a, b) => a.tld.localeCompare(b.tld): stable
RECURSIVE insertByTld(_, _)
insertByTld(x, s) ==
    IF s = <<>> THEN <<x>>
    ELSE IF localeLess(x.tld, Head(s).tld) THEN <<x>> \o s
    ELSE <<Head(s)>> \o insertByTld(x, Tail(s))

RECURSIVE sortByTld(_)
sortByTld(s) ==
    IF s = <<>> THEN <<>>
    ELSE insertByTld(s[Len(s)], sortByTld(SubSeq(s, 1, Len(s) - 1)))

\* Object.keys of the reduce(...) accumulator: the tlds in first-seen order
RECURSIVE tldKeys(_)
tldKeys(s) ==
    IF s = <<>> THEN <<>>
    ELSE LET front == tldKeys(SubSeq(s, 1, Len(s) - 1))
             k == s[Len(s)].tld
         IN IF \E i \in 1..Len(front) : front[i] = k THEN front ELSE Append(front, k)

\* acc[tld]: the tabs of one key, in the order of the array reduced
tldGroup(s, k) == SelectSeq(s, LAMBDA r : r.tld = k)

\* Object.entries(tldToTabs) flattened: group after group
RECURSIVE concatGroups(_, _)
concatGroups(s, ks) ==
    IF ks = <<>> THEN <<>> ELSE tldGroup(s, Head(ks)) \o concatGroups(s, Tail(ks))


\* ----------------------------------------------------------------- state
VARIABLES
    bg,            \* which background script is loaded: "v2" or "v3"
    open,          \* host: the handles of the open windows
    strip,         \* host: the tab strip of each window, left to right
    url,           \* host: the URL of each tab ever opened
    nextWin,       \* host: the next window handle
    nextTab,       \* host: the next tab handle
    originalTabs,  \* chrome.storage.local: the record keyed originalTabs
    lastDownload,  \* host: the rows of the last download that was initiated
    envUsed,       \* out-of-band user actions so far
    req,           \* the request being handled
    pc,            \* the host call the handler is suspended on
    resp,          \* the payloads passed to sendResponse for req
    tabData,       \* the snapshot collected for req
    exw,           \* organizeTabsByTLD: existingWindows, in Map order
    assign,        \* organizeTabsByTLD: windowAssignments, one per key so far
    idx,           \* organizeTabsByTLD: position of the running loop
    pend,          \* rearrangeWindows: the calls of a Promise.all not settled
    origIds,       \* handleSortTabs: originalWindowIds
    newIds,        \* rearrangeWindows: the windows created so far
    issued,        \* history: kinds of host call made for req
    failed,        \* history: kinds of host call that failed for req
    userAt,        \* history: the suspension points at which the user acted
    startOpen,     \* history: the windows open when req arrived
    startTabs,     \* history: the tabs live when req arrived
    run,           \* history: organizeTabsByTLD has looked, and the tabs live then
    prevMoveClean, \* history: the command before req was a sortTabsMove that
                   \* succeeded with no host call failing and nobody interfering
    px,            \* a function of the scripts applied on its own: input and output
    moveLog,       \* history: the chrome.tabs.move calls issued for req, <<tab, window>>
    times,         \* tabOpenTimes: the map in memory, the record in storage, the load
    popup          \* popup.js: the state of each button and the status message

hostVars == <<open, strip, url, nextWin, nextTab>>
storeVars == <<originalTabs, lastDownload>>
orgVars == <<exw, assign, idx>>
v3Vars == <<pend, origIds, newIds>>
histVars == <<issued, failed, userAt, startOpen, startTabs, run>>
vars == <<bg, hostVars, storeVars, envUsed, req, pc, resp, tabData,
          orgVars, v3Vars, histVars, prevMoveClean, px, moveLog, times, popup>>

NoReq == [action |-> "none", method |-> "none"]
Unset == [set |-> FALSE, rows |-> <<>>]
\* mutant of Stored: the write resolves and leaves the record as it never was
StoredNothing(rows) == [set |-> FALSE, rows |-> <<>>]
\* the record after chrome.storage.local.set({ originalTabs: tabData })
Stored(rows) == [set |-> TRUE, rows |-> rows]
NoRun == [on |-> FALSE, tabs |-> {}]
NoFn == [fn |-> "none", in |-> <<>>, out |-> <<>>]
\* let tabOpenTimes = {}: no tab has a time (0 stands for an absent entry)
NoEntries == [t \in TimeTabs |-> 0]
\* the script is loaded: tabOpenTimes = {} (mem), no tabOpenTimes record in
\* storage (stored), no tab created since (born: the time onCreated recorded
\* for each live tab), no load under way, onStartup not fired, no tab handle
\* used, Date.now() = 1
NoTimes == [mem |-> NoEntries, stored |-> NoEntries, born |-> NoEntries,
            loading |-> FALSE, started |-> FALSE, used |-> 0, clock |-> 1]
\* the buttons of the popup, each with the action it sends
Buttons == {"sortTabs", "sortTabsMove", "exportCSV"}
\* the popup as it opens: every button enabled (btn), no handleAction under
\* way (call), no status shown
PopupOpened == [btn |-> [b \in Buttons |-> "enabled"],
                call |-> [b \in Buttons |-> "none"],
                status |-> "", isError |-> FALSE]
Actions == {"sortTabs", "sortTabsMove", "exportCSV", "bogus"}
Methods == {"tld", "other"}

liveTabs == UNION {{strip[w][i] : i \in 1..Len(strip[w])} : w \in open}

\* a chrome.windows.Window with its tabs populated
windowObject(w) ==
    [id |-> w,
     tabs |-> [i \in 1..Len(strip[w]) |->
                 [id |-> strip[w][i], url |-> url[strip[w][i]], windowId |-> w]]]

\* chrome.windows.getAll({ populate: true }): the open windows in handle order
RECURSIVE windowsFrom(_)
windowsFrom(w) ==
    IF w > MaxWinId THEN <<>>
    ELSE (IF w \in open THEN <<windowObject(w)>> ELSE <<>>) \o windowsFrom(w + 1)

getAll == windowsFrom(1)

RECURSIVE flattenTabs(_)
flattenTabs(ws) ==
    IF ws = <<>> THEN <<>> ELSE Head(ws).tabs \o flattenTabs(Tail(ws))

\* the forEach/forEach of collectAndSortTabs: internal pages are skipped and a
\* tab whose URL does not parse is dropped by the catch
v2Records(ws) ==
    LET kept == SelectSeq(flattenTabs(ws),
                          LAMBDA t : ~startsWithChrome(t.url) /\ urlParses(t.url))
    IN [i \in 1..Len(kept) |->
          [id |-> kept[i].id, url |-> kept[i].url, windowId |-> kept[i].windowId,
           tld |-> sliceLast2(hostname(kept[i].url))]]

\* collectAndSortTabs(method = 'tld') once getAll has answered
collectAndSortTabs(ws, method) ==
    LET m == IF method = "undefined" THEN "tld" ELSE method
    IN IF m = "tld" THEN sortByTld(v2Records(ws)) ELSE v2Records(ws)

\* collectTabData of background_v3.js
collectTabData(ws) ==
    LET kept == SelectSeq(flattenTabs(ws), LAMBDA t : ~startsWithChrome(t.url))
    IN [i \in 1..Len(kept) |->
          [id |-> kept[i].id, url |-> kept[i].url, windowId |-> kept[i].windowId,
           tld |-> extractTLD(kept[i].url)]]

\* mutant of sortTabs: the snapshot is returned as it came
sortTabsNone(td, method) == td

\* sortTabs of background_v3.js: sortMethods[method] || sortMethods.tld
sortTabs(td, method) == sortByTld(td)

\* mutant of windowHasTld: no window is ever found to hold the key
windowHasTldNever(wobj, tld) == FALSE

\* window.tabs.some(t => new URL(t.url).hostname...join('.') === tld)
windowHasTld(wobj, tld) ==
    \E i \in 1..Len(wobj.tabs) :
        /\ urlParses(wobj.tabs[i].url)
        /\ sliceLast2(hostname(wobj.tabs[i].url)) = tld

\* the inner for-of over existingWindows: the first window holding the key, or 0
RECURSIVE findExisting(_, _)
findExisting(ex, tld) ==
    IF ex = <<>> THEN 0
    ELSE IF windowHasTld(Head(ex), tld) THEN Head(ex).id
    ELSE findExisting(Tail(ex), tld)

\* the assignment loop, run until it has to create a window or is through
RECURSIVE assignLoop(_, _, _)
assignLoop(keys, ex, asg) ==
    IF Len(asg) = Len(keys) THEN asg
    ELSE LET t == findExisting(ex, keys[Len(asg) + 1])
         IN IF t = 0 THEN asg ELSE assignLoop(keys, ex, Append(asg, t))

keyIndex(keys, k) == CHOOSE i \in 1..Len(keys) : keys[i] = k

\* windowAssignments.get(tld) for the key of a snapshot tab
targetOf(td, asg, r) == asg[keyIndex(tldKeys(td), r.tld)]

\* mutant of needsMove: no tab is moved
needsMoveNever(td, asg, r) == FALSE

\* mutant of needsMove: every tab is moved, wherever it is
needsMoveAlways(td, asg, r) == TRUE

\* if (tab.windowId !== targetWindowId)
needsMove(td, asg, r) == r.windowId # targetOf(td, asg, r)

\* the move loop, run from position i to the next tab it has to move
RECURSIVE nextMove(_, _, _)
nextMove(td, asg, i) ==
    LET mv == concatGroups(td, tldKeys(td))
    IN IF i > Len(mv) THEN i
       ELSE IF needsMove(td, asg, mv[i]) THEN i
       ELSE nextMove(td, asg, i + 1)

\* mutant of noTabsToExport: the empty check dropped
noTabsToExportNever(td) == FALSE

\* if (!tabData || tabData.length === 0) of handleExportCSV
noTabsToExport(td) == Len(td) = 0

\* mutant of isEmptyNow: no candidate is ever found empty
isEmptyNowNever(updatedTabs) == FALSE

\* mutant of isEmptyNow: the emptiness test dropped, every candidate is closed
isEmptyNowAlways(updatedTabs) == TRUE

\* if (updatedTabs.length === 0)
isEmptyNow(updatedTabs) == Len(updatedTabs) = 0

\* mutant of orgAfterAssign: the reap starts while moves are still to be made
orgAfterAssignThenReap(td, ex, asg) ==
    LET a == assignLoop(tldKeys(td), ex, asg)
    IN IF Len(a) < Len(tldKeys(td)) THEN [pc |-> "org_create", assign |-> a, idx |-> 0]
       ELSE IF Len(ex) > 0 THEN [pc |-> "org_query", assign |-> a, idx |-> 1]
       ELSE [pc |-> "done", assign |-> a, idx |-> 0]

\* where organizeTabsByTLD suspends next, from the assignment loop on
orgAfterAssign(td, ex, asg) ==
    LET a == assignLoop(tldKeys(td), ex, asg)
        m == nextMove(td, a, 1)
    IN IF Len(a) < Len(tldKeys(td)) THEN [pc |-> "org_create", assign |-> a, idx |-> 0]
       ELSE IF m <= Len(td) THEN [pc |-> "org_move", assign |-> a, idx |-> m]
       ELSE IF Len(ex) > 0 THEN [pc |-> "org_query", assign |-> a, idx |-> 1]
       ELSE [pc |-> "done", assign |-> a, idx |-> 0]

\* mutant of orgAfterMove: the move loop is left after the first move settled
orgAfterMoveAbort(td, ex, asg, i) ==
    IF Len(ex) > 0 THEN [pc |-> "org_query", assign |-> asg, idx |-> 1]
    ELSE [pc |-> "done", assign |-> asg, idx |-> 0]

\* where organizeTabsByTLD suspends next, after the move at position i
orgAfterMove(td, ex, asg, i) ==
    LET m == nextMove(td, asg, i + 1)
    IN IF m <= Len(td) THEN [pc |-> "org_move", assign |-> asg, idx |-> m]
       ELSE IF Len(ex) > 0 THEN [pc |-> "org_query", assign |-> asg, idx |-> 1]
       ELSE [pc |-> "done", assign |-> asg, idx |-> 0]

\* where organizeTabsByTLD suspends next, after the window at position i
orgAfterReap(ex, asg, i) ==
    IF i < Len(ex) THEN [pc |-> "org_query", assign |-> asg, idx |-> i + 1]
    ELSE [pc |-> "done", assign |-> asg, idx |-> 0]


\* ------------------------------------------------------------------ Init
\* The host the extension starts in: up to MaxInitTabs tabs in all, every window
\* holding at least one, handles issued in order; nothing persisted yet.
HostStarts(maxTabs, urls) ==
    /\ \E n \in 1..maxTabs, nW \in 1..maxTabs :
         \E cut \in [0..nW -> 0..n], u \in [1..n -> urls] :
            /\ cut[0] = 0 /\ cut[nW] = n
            /\ \A w \in 1..nW : cut[w - 1] < cut[w]
            /\ open = 1..nW
            /\ strip = [w \in WinIds |->
                          IF w <= nW
                          THEN [i \in 1..(cut[w] - cut[w - 1]) |-> cut[w - 1] + i]
                          ELSE <<>>]
            /\ url = [t \in TabIds |-> IF t <= n THEN u[t] ELSE NoUrl]
            /\ nextWin = nW + 1
            /\ nextTab = n + 1

\* nothing persisted, no request received, no handler running
NothingYet ==
    /\ originalTabs = Unset
    /\ lastDownload = Unset
    /\ envUsed = 0
    /\ req = NoReq
    /\ pc = "idle"
    /\ resp = <<>>
    /\ tabData = <<>>
    /\ exw = <<>> /\ assign = <<>> /\ idx = 0
    /\ pend = {} /\ origIds = {} /\ newIds = {}
    /\ issued = {} /\ failed = {} /\ userAt = {}
    /\ startOpen = {} /\ startTabs = {} /\ run = NoRun
    /\ prevMoveClean = FALSE
    /\ moveLog = {}
    /\ times = NoTimes
    /\ popup = PopupOpened

Init ==
    /\ bg \in {"v2", "v3"}
    /\ HostStarts(MaxInitTabs, Urls)
    /\ NothingYet
    /\ px = NoFn

\* ------------------------------------------------------------- responses
\* sendResponse({ result })
Result(s) == [result |-> s, error |-> "undefined"]
\* sendResponse({ error: error.message })
Error(m) == [result |-> "undefined", error |-> m]

\* mutant of Respond: the promise chain settles without calling sendResponse
RespondNever(p) == resp' = resp /\ pc' = "idle"

\* .then(result => sendResponse({ result })) / .catch(error => sendResponse(...))
Respond(p) == resp' = Append(resp, p) /\ pc' = "idle"

\* mutant of handlers: every action name finds a handler
handlersAny == {"exportCSV", "sortTabs", "sortTabsMove", "bogus"}

\* the table of handlers of each listener
handlers ==
    IF bg = "v2" THEN {"exportCSV", "sortTabs", "sortTabsMove"}
    ELSE {"sortTabs", "exportCSV"}

\* the host call each suspension point waits for
pcKind(p) ==
    CASE p \in {"v2_collect", "org_getAll", "v3_getAll"} -> "getAll"
      [] p \in {"v2_store", "v3_store"} -> "storageSet"
      [] p = "v2_download" -> "download"
      [] p \in {"org_create", "v3_creates"} -> "create"
      [] p = "org_move" -> "move"
      [] p = "org_query" -> "query"
      [] p \in {"org_remove", "v3_closes"} -> "remove"
      [] p = "v3_get" -> "storageGet"

\* the string the sort handler of background_v2.js returns
v2SortResult ==
    IF req.action = "sortTabs" THEN "Tabs sorted successfully."
    ELSE "Tabs sorted successfully (Move)."

\* ------------------------------------------------ chrome.runtime.onMessage
\* The listener runs: an unknown action is answered at once, a known one runs
\* its handler up to its first host call.
Receive(a, m) ==
    /\ pc = "idle"
    /\ req' = [action |-> a, method |-> m]
    /\ tabData' = <<>>
    /\ exw' = <<>> /\ assign' = <<>> /\ idx' = 0
    /\ pend' = {} /\ origIds' = {} /\ newIds' = {}
    /\ failed' = {} /\ userAt' = {}
    /\ startOpen' = open /\ startTabs' = liveTabs /\ run' = NoRun
    /\ prevMoveClean' = (/\ req.action = "sortTabsMove"
                         /\ Len(resp) = 1 /\ resp[1].result # "undefined"
                         /\ failed = {} /\ userAt = {})
    /\ IF a \in handlers
       THEN /\ pc' = (IF bg = "v2" THEN "v2_collect"
                      ELSE IF a = "sortTabs" THEN "v3_getAll" ELSE "v3_get")
            /\ resp' = <<>>
            /\ issued' = {pcKind(pc')}
       ELSE /\ pc' = "idle"
            /\ resp' = <<Error("Unknown action: " \o a)>>
            /\ issued' = {}
    /\ moveLog' = {}
    /\ UNCHANGED <<bg, px, times, popup, hostVars, storeVars, envUsed>>

\* An awaited host call rejects outside any try/catch that swallows it: the
\* rejection reaches the listener's .catch.  A close of a window that is gone
\* can only reject; so can a create when the host has no handle left.
CallFails ==
    /\ pc \in {"v2_collect", "v2_store", "v2_download", "org_getAll", "org_create",
               "org_query", "org_remove", "v3_getAll", "v3_store", "v3_get"}
    /\ failed' = failed \cup {pcKind(pc)}
    /\ Respond(Error("host error"))
    /\ UNCHANGED <<bg, px, times, popup, prevMoveClean, moveLog, hostVars, storeVars, envUsed, req, tabData, orgVars,
                   v3Vars, issued, userAt, startOpen, startTabs, run>>

\* ------------------------------------------------------- background_v2.js
\* collectAndSortTabs resolves; the handler runs to its next host call
V2CollectOk ==
    /\ pc = "v2_collect"
    /\ LET td == collectAndSortTabs(getAll, IF req.action = "exportCSV"
                                             THEN "undefined" ELSE req.method)
       IN /\ tabData' = td
          /\ IF req.action = "exportCSV" /\ noTabsToExport(td)
             THEN /\ Respond(Error("No tabs available to export."))
                  /\ issued' = issued
             ELSE /\ pc' = (CASE req.action = "exportCSV" -> "v2_download"
                              [] req.action = "sortTabs" -> "v2_store"
                              [] req.action = "sortTabsMove" -> "org_getAll")
                  /\ resp' = resp
                  /\ issued' = issued \cup {pcKind(pc')}
    /\ UNCHANGED <<bg, px, times, popup, prevMoveClean, moveLog, hostVars, storeVars, envUsed, req, orgVars, v3Vars,
                   failed, userAt, startOpen, startTabs, run>>

\* sortTabs: chrome.storage.local.set({ originalTabs: tabData }) resolves
V2StoreOk ==
    /\ pc = "v2_store"
    /\ originalTabs' = Stored(tabData)
    /\ pc' = "org_getAll"
    /\ issued' = issued \cup {"getAll"}
    /\ UNCHANGED <<bg, px, times, popup, prevMoveClean, moveLog, hostVars, lastDownload, envUsed, req, resp, tabData,
                   orgVars, v3Vars, failed, userAt, startOpen, startTabs, run>>

\* mutant of v2ExportRows: the persisted snapshot is preferred to the fresh one
v2ExportRowsPersisted == IF originalTabs.set THEN originalTabs.rows ELSE tabData

\* handleExportCSV of background_v2.js: convertToCSV(tabData), the snapshot
\* it has just collected
v2ExportRows == tabData

\* handleExportCSV: downloadCSV resolves
V2DownloadOk ==
    /\ pc = "v2_download"
    /\ lastDownload' = Stored(v2ExportRows)
    /\ Respond(Result("CSV exported successfully."))
    /\ UNCHANGED <<bg, px, times, popup, prevMoveClean, moveLog, hostVars, originalTabs, envUsed, req, tabData, orgVars,
                   v3Vars, histVars>>

\* organizeTabsByTLD moves on to the suspension point n, or returns
OrgGo(n) ==
    /\ assign' = n.assign
    /\ idx' = n.idx
    /\ moveLog' = IF n.pc = "org_move"
                  THEN LET tab == concatGroups(tabData, tldKeys(tabData))[n.idx]
                       IN moveLog \cup {<<tab.id, targetOf(tabData, n.assign, tab)>>}
                  ELSE moveLog
    /\ IF n.pc = "done"
       THEN Respond(Result(v2SortResult)) /\ issued' = issued
       ELSE pc' = n.pc /\ resp' = resp /\ issued' = issued \cup {pcKind(n.pc)}

\* organizeTabsByTLD: getAll resolves and the assignment loop starts
OrgGetAllOk ==
    /\ pc = "org_getAll"
    /\ exw' = getAll
    /\ run' = [on |-> TRUE, tabs |-> liveTabs]
    /\ OrgGo(orgAfterAssign(tabData, getAll, <<>>))
    /\ UNCHANGED <<bg, px, times, popup, prevMoveClean, hostVars, storeVars, envUsed, req, tabData, v3Vars,
                   failed, userAt, startOpen, startTabs>>

\* chrome.windows.create({ focused: false }) resolves with an empty window
OrgCreateOk ==
    /\ pc = "org_create"
    /\ nextWin <= MaxWinId
    /\ open' = open \cup {nextWin}
    /\ nextWin' = nextWin + 1
    /\ LET ex == Append(exw, [id |-> nextWin, tabs |-> <<>>])
       IN /\ exw' = ex
          /\ OrgGo(orgAfterAssign(tabData, ex, Append(assign, nextWin)))
    /\ UNCHANGED <<bg, px, times, popup, prevMoveClean, strip, url, nextTab, storeVars, envUsed, req, tabData,
                   v3Vars, failed, userAt, startOpen, startTabs, run>>

\* mutant of movedStrips: the tab goes to the front of window w
movedStripsFront(t, w) ==
    LET without == [v \in WinIds |-> SelectSeq(strip[v], LAMBDA x : x # t)]
    IN [without EXCEPT ![w] = <<t>> \o without[w]]

\* the strips after tab t went to the end of window w
movedStrips(t, w) ==
    LET without == [v \in WinIds |-> SelectSeq(strip[v], LAMBDA x : x # t)]
    IN [without EXCEPT ![w] = Append(without[w], t)]

\* the snapshot tab the move loop is at
moveTab == concatGroups(tabData, tldKeys(tabData))[idx]

\* chrome.tabs.move(tab.id, { windowId: targetWindowId, index: -1 }) resolves
OrgMoveOk ==
    /\ pc = "org_move"
    /\ moveTab.id \in liveTabs
    /\ targetOf(tabData, assign, moveTab) \in open
    /\ strip' = movedStrips(moveTab.id, targetOf(tabData, assign, moveTab))
    /\ OrgGo(orgAfterMove(tabData, exw, assign, idx))
    /\ UNCHANGED <<bg, px, times, popup, prevMoveClean, open, url, nextWin, nextTab, storeVars, envUsed, req,
                   tabData, exw, v3Vars, failed, userAt, startOpen, startTabs, run>>

\* the move rejects; the catch around it logs and the loop goes on
OrgMoveFail ==
    /\ pc = "org_move"
    /\ failed' = failed \cup {"move"}
    /\ OrgGo(orgAfterMove(tabData, exw, assign, idx))
    /\ UNCHANGED <<bg, px, times, popup, prevMoveClean, hostVars, storeVars, envUsed, req, tabData, exw,
                   v3Vars, userAt, startOpen, startTabs, run>>

\* chrome.tabs.query({ windowId }): the strip of the window now, none if gone
queryTabs(w) == IF w \in open THEN strip[w] ELSE <<>>

\* the reap loop: the query resolves and the window is closed if it is empty
OrgQueryOk ==
    /\ pc = "org_query"
    /\ IF isEmptyNow(queryTabs(exw[idx].id))
       THEN /\ pc' = "org_remove"
            /\ issued' = issued \cup {"remove"}
            /\ UNCHANGED <<resp, assign, idx, moveLog>>
       ELSE OrgGo(orgAfterReap(exw, assign, idx))
    /\ UNCHANGED <<bg, px, times, popup, prevMoveClean, hostVars, storeVars, envUsed, req, tabData, exw,
                   v3Vars, failed, userAt, startOpen, startTabs, run>>

\* chrome.windows.remove(windowId) resolves: the window goes with its tabs
OrgRemoveOk ==
    /\ pc = "org_remove"
    /\ exw[idx].id \in open
    /\ open' = open \ {exw[idx].id}
    /\ strip' = [strip EXCEPT ![exw[idx].id] = <<>>]
    /\ OrgGo(orgAfterReap(exw, assign, idx))
    /\ UNCHANGED <<bg, px, times, popup, prevMoveClean, url, nextWin, nextTab, storeVars, envUsed, req,
                   tabData, exw, v3Vars, failed, userAt, startOpen, startTabs, run>>


\* ------------------------------------------------------- background_v3.js
\* handleSortTabs: getAll resolves, the snapshot is collected and written
V3GetAllOk ==
    /\ pc = "v3_getAll"
    /\ origIds' = {getAll[i].id : i \in 1..Len(getAll)}
    /\ tabData' = collectTabData(getAll)
    /\ pc' = "v3_store"
    /\ issued' = issued \cup {"storageSet"}
    /\ UNCHANGED <<bg, px, times, popup, prevMoveClean, moveLog, hostVars, storeVars, envUsed, req, resp, orgVars, pend,
                   newIds, failed, userAt, startOpen, startTabs, run>>

\* groupTabsByTLD(sortTabs(tabData, request.method)): the keys, in group order
v3Keys == tldKeys(sortTabs(tabData, req.method))

\* tabs.map(tab => tab.url) of the group at position g
groupUrls(g) ==
    LET grp == tldGroup(sortTabs(tabData, req.method), v3Keys[g])
    IN [i \in 1..Len(grp) |-> grp[i].url]

\* mutant of windowsToClose: the filter inverted, no original window is closed
windowsToCloseNone(orig, new) == orig \cap new

\* originalWindowIds.filter(id => !newWindowIds.includes(id))
windowsToClose(orig, new) == orig \ new

\* closeOriginalWindows issues its closes, or has none to issue and
\* handleSortTabs returns
V3StartCloses(new) ==
    IF windowsToClose(origIds, new) = {}
    THEN /\ Respond(Result("Tabs sorted successfully."))
         /\ pend' = {}
         /\ issued' = issued
    ELSE /\ pc' = "v3_closes"
         /\ pend' = windowsToClose(origIds, new)
         /\ resp' = resp
         /\ issued' = issued \cup {"remove"}

\* the write of originalTabs resolves; rearrangeWindows issues one create per
\* group, all at once
V3StoreOk ==
    /\ pc = "v3_store"
    /\ originalTabs' = Stored(tabData)
    /\ IF Len(v3Keys) > 0
       THEN /\ pc' = "v3_creates"
            /\ pend' = 1..Len(v3Keys)
            /\ resp' = resp
            /\ issued' = issued \cup {"create"}
       ELSE V3StartCloses({})
    /\ UNCHANGED <<bg, px, times, popup, prevMoveClean, moveLog, hostVars, lastDownload, envUsed, req, tabData, orgVars,
                   origIds, newIds, failed, userAt, startOpen, startTabs, run>>

\* mutant of V3Reject: a rejection inside the Promise.all is dropped
V3RejectDropped == resp' = resp

\* the first rejection settles the Promise.all and with it the command
V3Reject == IF resp = <<>> THEN resp' = <<Error("host error")>> ELSE resp' = resp

\* chrome.windows.create({ url: [...], focused: false }) resolves for group g:
\* a new window with one new tab per URL
V3CreateOk(g) ==
    /\ pc = "v3_creates"
    /\ g \in pend
    /\ nextWin <= MaxWinId
    /\ nextTab + Len(groupUrls(g)) - 1 <= MaxOwnTab
    /\ open' = open \cup {nextWin}
    /\ strip' = [strip EXCEPT ![nextWin] =
                    [i \in 1..Len(groupUrls(g)) |-> nextTab + i - 1]]
    /\ url' = [t \in TabIds |->
                 IF t >= nextTab /\ t < nextTab + Len(groupUrls(g))
                 THEN groupUrls(g)[t - nextTab + 1] ELSE url[t]]
    /\ nextWin' = nextWin + 1
    /\ nextTab' = nextTab + Len(groupUrls(g))
    /\ newIds' = newIds \cup {nextWin}
    /\ IF pend = {g}
       THEN IF resp = <<>>
            THEN V3StartCloses(newIds')
            ELSE pc' = "idle" /\ pend' = {} /\ resp' = resp /\ issued' = issued
       ELSE pc' = pc /\ pend' = pend \ {g} /\ resp' = resp /\ issued' = issued
    /\ UNCHANGED <<bg, px, times, popup, prevMoveClean, moveLog, storeVars, envUsed, req, tabData, orgVars, origIds,
                   failed, userAt, startOpen, startTabs, run>>

\* the create for group g rejects
V3CreateFail(g) ==
    /\ pc = "v3_creates"
    /\ g \in pend
    /\ pend' = pend \ {g}
    /\ failed' = failed \cup {"create"}
    /\ V3Reject
    /\ pc' = (IF pend = {g} THEN "idle" ELSE pc)
    /\ UNCHANGED <<bg, px, times, popup, prevMoveClean, moveLog, hostVars, storeVars, envUsed, req, tabData, orgVars,
                   origIds, newIds, issued, userAt, startOpen, startTabs, run>>

\* chrome.windows.remove(id) resolves for original window w
V3CloseOk(w) ==
    /\ pc = "v3_closes"
    /\ w \in pend
    /\ w \in open
    /\ open' = open \ {w}
    /\ strip' = [strip EXCEPT ![w] = <<>>]
    /\ pend' = pend \ {w}
    /\ IF pend = {w} /\ resp = <<>>
       THEN Respond(Result("Tabs sorted successfully."))
       ELSE pc' = (IF pend = {w} THEN "idle" ELSE pc) /\ resp' = resp
    /\ UNCHANGED <<bg, px, times, popup, prevMoveClean, moveLog, url, nextWin, nextTab, storeVars, envUsed, req, tabData,
                   orgVars, origIds, newIds, histVars>>

\* the close of original window w rejects
V3CloseFail(w) ==
    /\ pc = "v3_closes"
    /\ w \in pend
    /\ pend' = pend \ {w}
    /\ failed' = failed \cup {"remove"}
    /\ V3Reject
    /\ pc' = (IF pend = {w} THEN "idle" ELSE pc)
    /\ UNCHANGED <<bg, px, times, popup, prevMoveClean, moveLog, hostVars, storeVars, envUsed, req, tabData, orgVars,
                   origIds, newIds, issued, userAt, startOpen, startTabs, run>>

\* handleExportCSV of background_v3.js: the read of originalTabs resolves.  The
\* downloadCSV in force is the second declaration: it returns at once, and its
\* try block either reaches chrome.downloads.download or throws before it.
V3GetOk ==
    /\ pc = "v3_get"
    /\ IF ~originalTabs.set \/ noTabsToExport(originalTabs.rows)
       THEN /\ Respond(Error("No tab data found to export."))
            /\ UNCHANGED <<lastDownload, issued>>
       ELSE /\ Respond(Result("CSV exported successfully."))
            /\ \E started \in BOOLEAN :
                 IF started
                 THEN /\ lastDownload' = Stored(originalTabs.rows)
                      /\ issued' = issued \cup {"download"}
                 ELSE UNCHANGED <<lastDownload, issued>>
    /\ UNCHANGED <<bg, px, times, popup, prevMoveClean, moveLog, hostVars, originalTabs, envUsed, req, tabData, orgVars,
                   v3Vars, failed, userAt, startOpen, startTabs, run>>

\* ---------------------------------------------------------------- the user
\* The user opens a tab in window w
ExtOpenTab(w, u) ==
    /\ envUsed < MaxEnv
    /\ pc # "idle"
    /\ w \in open
    /\ envUsed' = envUsed + 1
    /\ strip' = [strip EXCEPT ![w] = Append(strip[w], MaxOwnTab + envUsed')]
    /\ url' = [url EXCEPT ![MaxOwnTab + envUsed'] = u]
    /\ userAt' = userAt \cup {pc}
    /\ UNCHANGED <<bg, px, times, popup, prevMoveClean, moveLog, open, nextWin, nextTab, storeVars, req, pc, resp, tabData,
                   orgVars, v3Vars, issued, failed, startOpen, startTabs, run>>

\* The user closes tab t
ExtCloseTab(t) ==
    /\ envUsed < MaxEnv
    /\ pc # "idle"
    /\ t \in liveTabs
    /\ envUsed' = envUsed + 1
    /\ strip' = [v \in WinIds |-> SelectSeq(strip[v], LAMBDA x : x # t)]
    /\ userAt' = userAt \cup {pc}
    /\ UNCHANGED <<bg, px, times, popup, prevMoveClean, moveLog, open, url, nextWin, nextTab, storeVars, req, pc, resp,
                   tabData, orgVars, v3Vars, issued, failed, startOpen, startTabs, run>>

\* The user closes window w
ExtCloseWindow(w) ==
    /\ envUsed < MaxEnv
    /\ pc # "idle"
    /\ w \in open
    /\ envUsed' = envUsed + 1
    /\ open' = open \ {w}
    /\ strip' = [strip EXCEPT ![w] = <<>>]
    /\ userAt' = userAt \cup {pc}
    /\ UNCHANGED <<bg, px, times, popup, prevMoveClean, moveLog, url, nextWin, nextTab, storeVars, req, pc, resp,
                   tabData, orgVars, v3Vars, issued, failed, startOpen, startTabs, run>>

\* ------------------------------------------------------------------ Next
Request ==
    \E a \in Actions :
        \E m \in (IF a \in {"sortTabs", "sortTabsMove"} THEN Methods ELSE {"undefined"}) :
            Receive(a, m)

\* the steps of background_v2.js on a host nobody else touches
V2Steps ==
    \/ V2CollectOk
    \/ V2StoreOk
    \/ V2DownloadOk
    \/ OrgGetAllOk
    \/ OrgMoveOk
    \/ OrgMoveFail
    \/ OrgQueryOk
    \/ OrgRemoveOk

\* the steps of background_v3.js
V3Steps ==
    \/ V3GetAllOk
    \/ V3StoreOk
    \/ \E g \in 1..MaxOwnTab : V3CreateOk(g)
    \/ \E g \in 1..MaxOwnTab : V3CreateFail(g)
    \/ \E w \in WinIds : V3CloseOk(w)
    \/ \E w \in WinIds : V3CloseFail(w)
    \/ V3GetOk

User ==
    \/ \E w \in WinIds, u \in UserUrls : ExtOpenTab(w, u)
    \/ \E t \in TabIds : ExtCloseTab(t)
    \/ \E w \in WinIds : ExtCloseWindow(w)

InitV2 == Init /\ bg = "v2"
InitV3 == Init /\ bg = "v3"

\* either background on a host nobody else touches
Next == Request \/ CallFails \/ V2Steps \/ V3Steps
Spec == Init /\ [][Next]_vars

\* background_v2.js on a host nobody else touches
NextV2 == Request \/ CallFails \/ V2Steps
SpecV2 == InitV2 /\ [][NextV2]_vars

\* the host answers every call a handler of background_v2.js waits for
LiveV2 == SpecV2 /\ WF_vars(CallFails \/ V2Steps)

\* background_v3.js on a host nobody else touches
NextV3 == Request \/ CallFails \/ V3Steps
SpecV3 == InitV3 /\ [][NextV3]_vars

\* background_v2.js with a user acting while commands run; a behaviour is
\* followed to the end of the command in which the last user action falls
NextV2User ==
    \/ (envUsed < MaxEnv /\ Request)
    \/ CallFails
    \/ V2Steps
    \/ OrgCreateOk
    \/ User
SpecV2User == InitV2 /\ [][NextV2User]_vars

\* background_v2.js serving sortTabsMove only, on a quiet host with up to
\* MaxMoveTabs tabs
InitMove ==
    /\ bg = "v2"
    /\ HostStarts(MaxMoveTabs, {UrlA, UrlB, UrlInternal})
    /\ NothingYet
    /\ px = NoFn
NextMove ==
    \/ \E m \in Methods : Receive("sortTabsMove", m)
    \/ CallFails
    \/ V2CollectOk
    \/ OrgGetAllOk
    \/ OrgMoveOk
    \/ OrgMoveFail
    \/ OrgQueryOk
    \/ OrgRemoveOk
SpecMove == InitMove /\ [][NextMove]_vars

\* --------------------------------------------------------- tabOpenTimes
\* every variable but times
notTimes == <<bg, hostVars, storeVars, envUsed, req, pc, resp, tabData,
              orgVars, v3Vars, histVars, prevMoveClean, px, moveLog, popup>>

\* chrome.runtime.onStartup fires: chrome.storage.local.get is issued
OnStartup ==
    /\ ~times.started
    /\ times' = [times EXCEPT !.started = TRUE, !.loading = TRUE]
    /\ UNCHANGED notTimes

\* the callback of the get runs: tabOpenTimes = data.tabOpenTimes || {}
StartupLoaded ==
    /\ times.loading
    /\ times' = [times EXCEPT !.mem = times.stored, !.loading = FALSE]
    /\ UNCHANGED notTimes

\* chrome.tabs.onCreated for the next tab handle, with Date.now() = now:
\* tabOpenTimes[tab.id] = Date.now(), and no write to storage
OnCreated(now) ==
    /\ times.used < MaxTimeTabs
    /\ now >= times.clock
    /\ LET t == times.used + 1
       IN times' = [times EXCEPT !.mem[t] = now, !.born[t] = now,
                                 !.used = t, !.clock = now]
    /\ UNCHANGED notTimes

\* chrome.tabs.onRemoved for a live tab: delete tabOpenTimes[tabId], then
\* chrome.storage.local.set({ tabOpenTimes })
OnRemoved(t) ==
    /\ t <= times.used /\ times.born[t] # 0
    /\ LET m == [times.mem EXCEPT ![t] = 0]
       IN times' = [times EXCEPT !.mem = m, !.born[t] = 0, !.stored = m]
    /\ UNCHANGED notTimes

\* the lifecycle listeners of background_v2.js on their own
InitTimes ==
    /\ bg = "v2"
    /\ HostStarts(1, {UrlA})
    /\ NothingYet
    /\ px = NoFn
NextTimes ==
    \/ OnStartup
    \/ StartupLoaded
    \/ \E now \in 1..MaxClock : OnCreated(now)
    \/ \E t \in TimeTabs : OnRemoved(t)
SpecTimes == InitTimes /\ [][NextTimes]_vars

\* ------------------------------------------------------------- popup.js
\* every variable but popup
notPopup == <<bg, hostVars, storeVars, envUsed, req, pc, resp, tabData,
              orgVars, v3Vars, histVars, prevMoveClean, px, moveLog, times>>

\* what the background answers to the action of button b
resultOf(b) ==
    CASE b = "sortTabs" -> "Tabs sorted successfully."
      [] b = "sortTabsMove" -> "Tabs sorted successfully (Move)."
      [] b = "exportCSV" -> "CSV exported successfully."
\* the responses the callback of sendMessage is given for button b
Payloads(b) == {Result(resultOf(b)), Result("undefined"), Error("host error")}

\* a click on an enabled button: handleAction disables it and sends the message
PopupClick(b) ==
    /\ popup.btn[b] = "enabled"
    /\ popup' = [popup EXCEPT !.btn[b] = "disabled", !.call[b] = "sent"]
    /\ UNCHANGED notPopup

\* the callback runs with a response and no lastError: the promise resolves,
\* the status is shown and finally re-enables the button
PopupResponse(b, r) ==
    /\ popup.call[b] = "sent"
    /\ popup' = [popup EXCEPT
                   !.btn[b] = "enabled",
                   !.call[b] = "none",
                   !.status = IF r.error # "undefined" THEN r.error
                              ELSE IF r.result # "undefined" THEN r.result
                              ELSE "Operation completed successfully",
                   !.isError = (r.error # "undefined")]
    /\ UNCHANGED notPopup

\* the callback runs with chrome.runtime.lastError set: it throws inside the
\* callback, outside the promise executor, so the promise never settles and
\* neither catch nor finally of handleAction runs
PopupLastError(b) ==
    /\ popup.call[b] = "sent"
    /\ popup' = [popup EXCEPT !.call[b] = "lost"]
    /\ UNCHANGED notPopup

\* the timers of showStatus fire: the status message is hidden
PopupStatusHidden ==
    /\ popup.status # ""
    /\ popup' = [popup EXCEPT !.status = "", !.isError = FALSE]
    /\ UNCHANGED notPopup

\* the callback of the message sent for button b runs, one way or the other
PopupCallback(b) == (\E r \in Payloads(b) : PopupResponse(b, r)) \/ PopupLastError(b)

\* the popup on its own
InitPopup ==
    /\ bg \in {"v2", "v3"}
    /\ HostStarts(1, {UrlA})
    /\ NothingYet
    /\ px = NoFn
NextPopup ==
    \/ \E b \in Buttons : PopupClick(b)
    \/ \E b \in Buttons : \E r \in Payloads(b) : PopupResponse(b, r)
    \/ \E b \in Buttons : PopupLastError(b)
    \/ PopupStatusHidden
SpecPopup == InitPopup /\ [][NextPopup]_vars
\* the host runs the callback of every message sent, and timers fire
LivePopup ==
    /\ SpecPopup
    /\ \A b \in Buttons : WF_vars(PopupCallback(b))
    /\ WF_vars(PopupStatusHidden)

\* -------------------------------------------- the functions on their own
\* every variable but px
machineVars == <<bg, hostVars, storeVars, envUsed, req, pc, resp, tabData,
                 orgVars, v3Vars, histVars, prevMoveClean, moveLog, times, popup>>

\* the texts of at most n characters over chars
Texts(chars, n) == UNION {[1..k -> chars] : k \in 0..n}

HostChars == {"a", "b", "."}
FieldChars == {"a", "\""}
\* the keys of the tabs given to the grouping
FnKeys == {sliceLast2(hostname(UrlA)), sliceLast2(hostname(UrlB)), UnknownKey}

\* extractTLD(url) is called: new URL(url) threw, or returned hostname h
ApplyExtractTLD(parsed, h) ==
    /\ px' = [fn |-> "extractTLD", in |-> <<parsed, h>>,
              out |-> extractTLDOf(parsed, h)]
    /\ UNCHANGED machineVars

\* groupTabsByTLD: Object.entries of the reduce(...) accumulator
groupTabsByTLD(s) ==
    [g \in 1..Len(tldKeys(s)) |->
        [tld |-> tldKeys(s)[g], tabs |-> tldGroup(s, tldKeys(s)[g])]]

\* groupTabsByTLD(sortTabs(tabData, method)) is called, as in handleSortTabs
ApplySortAndGroup(td, method) ==
    /\ px' = [fn |-> "groupTabsByTLD", in |-> td,
              out |-> groupTabsByTLD(sortTabs(td, method))]
    /\ UNCHANGED machineVars

\* title.replace(/"/g, '""')
RECURSIVE doubleQuotes(_)
doubleQuotes(t) ==
    IF t = <<>> THEN <<>>
    ELSE (IF Head(t) = "\"" THEN <<"\"", "\"">> ELSE <<Head(t)>>)
         \o doubleQuotes(Tail(t))

\* convertToCSV: the title field of a row
csvTitle(title) == <<"\"">> \o doubleQuotes(title) \o <<"\"">>

\* convertToCSV: the URL field of a row
csvUrl(u) == <<"\"">> \o u \o <<"\"">>

\* convertToCSV is called on a tab with this title and this URL
ApplyConvertToCSV(title, u) ==
    /\ px' = [fn |-> "convertToCSV", in |-> <<title, u>>,
              out |-> <<csvTitle(title), csvUrl(u)>>]
    /\ UNCHANGED machineVars

\* the functions applied to every input within the bounds
InitFn == InitV3 /\ open = {1} /\ Len(strip[1]) = 1 /\ url[1] = UrlA
NextFn ==
    \/ \E h \in Texts(HostChars, MaxHostLen) : ApplyExtractTLD(TRUE, h)
    \/ ApplyExtractTLD(FALSE, <<>>)
    \/ \E n \in 0..MaxFnTabs, m \in Methods :
          \E ks \in [1..n -> FnKeys] :
             ApplySortAndGroup([i \in 1..n |-> [tld |-> ks[i], id |-> i]], m)
    \/ \E title \in Texts(FieldChars, MaxFieldLen), u \in Texts(FieldChars, MaxFieldLen) :
          ApplyConvertToCSV(title, u)
SpecFn == InitFn /\ [][NextFn]_vars


\* ================================================================ claims
succeeded == Len(resp) = 1 /\ resp[1].result # "undefined"
orgPcs == {"org_create", "org_move", "org_query", "org_remove"}
\* nobody but organizeTabsByTLD touched the host since it first looked
quietRun == userAt \cap orgPcs = {}
\* the tabs shown in all open windows, counted with repetition
RECURSIVE stripTotal(_)
stripTotal(ws) ==
    IF ws = {} THEN 0
    ELSE LET w == CHOOSE x \in ws : TRUE IN Len(strip[w]) + stripTotal(ws \ {w})
\* the domain keys of the snapshot tabs window w holds
keysIn(w) ==
    {tabData[i].tld : i \in {j \in 1..Len(tabData) :
                               \E k \in 1..Len(strip[w]) : strip[w][k] = tabData[j].id}}
\* the URLs window w shows, left to right
urlsIn(w) == [i \in 1..Len(strip[w]) |-> url[strip[w][i]]]

\* C1: in incremental-move mode, also with the user opening and closing tabs
\* between steps, every window a step of the reconciler closes holds no tab
\* at that moment, and no step of the reconciler destroys a tab.
C1_ReapClosesOnlyEmpty ==
    [][(envUsed' = envUsed)
         => /\ \A w \in open \ open' : strip[w] = <<>>
            /\ liveTabs \subseteq liveTabs']_vars

\* C2: once organizeTabsByTLD has looked at the host and as long as nobody else
\* touches it, the live tab handles are exactly those it saw, each shown once:
\* through window creations, failed moves and the reap, to the end of the run.
C2_NoTabLostOrDuplicated ==
    (run.on /\ quietRun)
        => /\ liveTabs = run.tabs
           /\ stripTotal(open) = Cardinality(run.tabs)

\* C2 witness: a run that opened a window and had a move fail has returned
C2_Witness ==
    /\ pc = "idle" /\ run.on /\ quietRun /\ succeeded
    /\ "create" \in issued /\ "move" \in failed
    /\ run.tabs # {}

\* C3: after sortTabsMove succeeds with every host call succeeding and nobody
\* interfering, every open window holds snapshot tabs of at most one domain key.
C3_OneKeyPerWindow ==
    (pc = "idle" /\ req.action = "sortTabsMove" /\ succeeded
       /\ failed = {} /\ userAt = {})
        => \A w \in open : Cardinality(keysIn(w)) <= 1

\* C4: recreate mode of background_v3.js, every host call succeeding: when
\* sortTabs has answered there are exactly as many windows as groups, each
\* group's URL sequence is shown by one of them, and no original window is open.
C4_RecreateConverges ==
    (bg = "v3" /\ pc = "idle" /\ req.action = "sortTabs" /\ succeeded /\ failed = {})
        => /\ Cardinality(open) = Len(v3Keys)
           /\ \A g \in 1..Len(v3Keys) : \E w \in open : urlsIn(w) = groupUrls(g)
           /\ \A w \in open : \E g \in 1..Len(v3Keys) : urlsIn(w) = groupUrls(g)
           /\ open \cap startOpen = {}

\* C4 witness: two original windows were replaced by two group windows
C4_Witness ==
    /\ bg = "v3" /\ pc = "idle" /\ req.action = "sortTabs" /\ succeeded
    /\ Len(v3Keys) = 2 /\ Cardinality(startOpen) = 2 /\ Cardinality(open) = 2

\* C5: sortTabs of background_v2.js reconciles in recreate mode: when it has
\* succeeded, no window that existed before the command is still open.
C5_SortTabsRecreates ==
    (bg = "v2" /\ pc = "idle" /\ req.action = "sortTabs" /\ succeeded)
        => open \cap startOpen = {}


\* C6: every request delivered to the listener of background_v2.js is answered,
\* exactly once, by a payload that carries a result or an error and not both,
\* whichever host calls succeed or fail.
C6_OneResponse ==
    /\ [](Len(resp) <= 1)
    /\ [](\A i \in 1..Len(resp) :
             (resp[i].result = "undefined") # (resp[i].error = "undefined"))
    /\ []((pc = "idle" /\ req # NoReq) => Len(resp) = 1)
    /\ ((req # NoReq /\ resp = <<>>) ~> (Len(resp) = 1))

\* C6 witness: a sort whose close of an emptied window failed was answered by
\* an error
C6_Witness ==
    /\ pc = "idle" /\ req.action = "sortTabsMove" /\ "remove" \in failed
    /\ Len(resp) = 1 /\ resp[1].error # "undefined"

\* the commands of the command surface
definedCommands == {"sortTabs", "sortTabsMove", "exportCSV"}

\* C7: a request naming no defined command is answered at once by the
\* "Unknown action" error, and handling it makes no host call: windows, tabs,
\* the persisted records and the downloads stay as they were.
C7_UnknownAction ==
    [][(pc = "idle" /\ req'.action \notin definedCommands)
         => /\ pc' = "idle"
            /\ resp' = <<Error("Unknown action: " \o req'.action)>>
            /\ issued' = {}
            /\ UNCHANGED <<hostVars, storeVars>>]_vars

\* C7 witness: an unknown action was answered after a sort had persisted a
\* snapshot
C7_Witness ==
    /\ pc = "idle" /\ req.action = "bogus" /\ originalTabs.set
    /\ resp = <<Error("Unknown action: bogus")>> /\ issued = {}

\* the records exportCSV finds to export
exportRecords == IF bg = "v2" THEN tabData ELSE originalTabs.rows

\* C8: when exportCSV has zero records to export it answers with an error and
\* initiates no download; a download never carries zero rows.
C8_EmptyExportFails ==
    /\ lastDownload.set => Len(lastDownload.rows) > 0
    /\ (pc = "idle" /\ req.action = "exportCSV" /\ Len(exportRecords) = 0)
          => /\ Len(resp) = 1 /\ resp[1].error # "undefined"
             /\ "download" \notin issued

\* C8 witness: every tab was skipped by the collector, nothing failed, and
\* exportCSV answered with its own error
C8_Witness ==
    /\ bg = "v2" /\ pc = "idle" /\ req.action = "exportCSV" /\ failed = {}
    /\ Len(exportRecords) = 0 /\ liveTabs # {}
    /\ resp = <<Error("No tabs available to export.")>>

\* the snapshot a collection would produce now
freshSnapshot ==
    IF bg = "v2" THEN collectAndSortTabs(getAll, "undefined") ELSE collectTabData(getAll)

C10_SortPersistsSnapshot ==
    (bg = "v2" /\ pc = "idle" /\ req.action \in {"sortTabs", "sortTabsMove"}
       /\ succeeded)
        => originalTabs = Stored(tabData)

\* C11: a close that fails in the reap step of sortTabsMove is swallowed: the
\* command still answers with its success string.
C11_ReapFailureSwallowed ==
    (bg = "v2" /\ pc = "idle" /\ req.action = "sortTabsMove" /\ failed = {"remove"})
        => /\ succeeded
           /\ resp = <<Result("Tabs sorted successfully (Move).")>>

\* the suspension points at which the snapshot was just collected and the
\* host is as the collector saw it
snapshotFresh == pc \in {"v2_store", "v2_download", "org_getAll", "v3_store"}
\* the live tabs whose URL is not internal
webTabs == {t \in liveTabs : ~startsWithChrome(url[t])}

\* C12: the snapshot a collection produces holds exactly one record for every
\* live tab whose URL is not chrome://, a tab whose URL does not parse
\* included, and no record for an internal tab.
C12_SnapshotCoversWebTabs ==
    (snapshotFresh /\ userAt = {})
        => /\ {tabData[i].id : i \in 1..Len(tabData)} = webTabs
           /\ Len(tabData) = Cardinality(webTabs)

\* the positions of the dots of a hostname
dotsOf(h) == {i \in 1..Len(h) : h[i] = "."}
\* what follows the last dot but one, the whole hostname if it has no two dots
lastTwoLabels(h) ==
    IF Cardinality(dotsOf(h)) < 2 THEN h
    ELSE LET d == CHOOSE x \in dotsOf(h) : Cardinality({e \in dotsOf(h) : e > x}) = 1
         IN SubSeq(h, d + 1, Len(h))

placesOf(groups, t) ==
    {gj \in UNION {{<<g, j>> : j \in 1..Len(groups[g].tabs)} : g \in 1..Len(groups)} :
        groups[gj[1]].tabs[gj[2]].id = t}

\* C14: sortTabs followed by groupTabsByTLD partitions the snapshot: every tab
\* stands in exactly one place of exactly one group, under its own key; the
\* groups come in increasing order of key; inside a group the tabs keep the
\* order they had in the snapshot.
C14_GroupingPartitions ==
    (px.fn = "groupTabsByTLD")
        => /\ \A i \in 1..Len(px.in) : Cardinality(placesOf(px.out, px.in[i].id)) = 1
           /\ \A g \in 1..Len(px.out) : \A j \in 1..Len(px.out[g].tabs) :
                 /\ px.out[g].tabs[j].tld = px.out[g].tld
                 /\ \E i \in 1..Len(px.in) : px.in[i] = px.out[g].tabs[j]
                 /\ \A k \in 1..(j - 1) : px.out[g].tabs[k].id < px.out[g].tabs[j].id
           /\ \A g \in 1..Len(px.out) : Len(px.out[g].tabs) > 0
           /\ \A g \in 1..(Len(px.out) - 1) : localeLess(px.out[g].tld, px.out[g + 1].tld)

\* C14 witness: three tabs, the first of the later key, went into two groups
C14_Witness ==
    /\ px.fn = "groupTabsByTLD" /\ Len(px.in) = 3 /\ Len(px.out) = 2
    /\ Len(px.out[2].tabs) = 2 /\ px.out[2].tabs[1].id = 1

\* C15: a sort command given a method name that is no strategy orders the
\* snapshot as the default does: the snapshot a sort command of
\* background_v2.js works on is in increasing order of key, whatever the method.
C15_UnknownMethodSortsByKey ==
    (bg = "v2" /\ req.action \in {"sortTabs", "sortTabsMove"})
        => \A i, j \in 1..Len(tabData) :
              i < j => ~localeLess(tabData[j].tld, tabData[i].tld)

\* a CSV reader on what follows the opening quote of a quoted field: a doubled
\* quote is a quote, a single one closes the field and must end it
RECURSIVE unescape(_)
unescape(s) ==
    IF s = <<>> THEN [ok |-> FALSE, text |-> <<>>]
    ELSE IF Head(s) # "\""
         THEN [ok |-> unescape(Tail(s)).ok, text |-> <<Head(s)>> \o unescape(Tail(s)).text]
    ELSE IF Tail(s) = <<>> THEN [ok |-> TRUE, text |-> <<>>]
    ELSE IF Head(Tail(s)) = "\""
         THEN [ok |-> unescape(Tail(Tail(s))).ok,
               text |-> <<"\"">> \o unescape(Tail(Tail(s))).text]
    ELSE [ok |-> FALSE, text |-> <<>>]
\* a CSV reader on a quoted field
unquote(f) ==
    IF f = <<>> \/ Head(f) # "\"" THEN [ok |-> FALSE, text |-> <<>>]
    ELSE unescape(Tail(f))

\* C16: in a row of convertToCSV the title field and the URL field are quoted
\* with every inner quote doubled: reading either field back gives the title
\* and the URL the row was made from.
C16_QuotedFieldsRoundTrip ==
    (px.fn = "convertToCSV")
        => /\ unquote(px.out[1]) = [ok |-> TRUE, text |-> px.in[1]]
           /\ unquote(px.out[2]) = [ok |-> TRUE, text |-> px.in[2]]

\* C17: a sortTabsMove that runs right after a sortTabsMove that succeeded
\* with every host call succeeding and nobody interfering moves no tab, opens
\* no window and closes no window.
C17_RerunChangesNothing ==
    (bg = "v2" /\ req.action = "sortTabsMove" /\ prevMoveClean /\ userAt = {})
        => issued \cap {"move", "create", "remove"} = {}

\* C17 witness: the second run has answered on a host where an earlier run
\* had brought two tabs into one window and closed the other
C17_Witness ==
    /\ bg = "v2" /\ pc = "idle" /\ req.action = "sortTabsMove" /\ prevMoveClean
    /\ succeeded /\ failed = {}
    /\ open = {1} /\ nextWin = 3 /\ Len(strip[1]) = 2

\* C18: the assignment of organizeTabsByTLD gives every key one window and no
\* window to two keys.
C18_AssignmentInjective ==
    (bg = "v2" /\ userAt = {})
        => /\ Len(assign) <= Len(tldKeys(tabData))
           /\ \A i, j \in 1..Len(assign) : assign[i] = assign[j] => i = j

\* C19: in recreate mode no original window is closed, and no close is
\* issued, before every group window has been created; once a create has
\* failed no close is ever issued, every original window stays open, and the
\* command answers with an error.
C19_ClosesAfterAllCreates ==
    /\ (bg = "v3" /\ pc = "v3_creates") => startOpen \subseteq open
    /\ (bg = "v3" /\ "remove" \in issued)
          => "create" \notin failed /\ Cardinality(newIds) = Len(v3Keys)
    /\ (bg = "v3" /\ "create" \in failed)
          => /\ "remove" \notin issued
             /\ startOpen \subseteq open
             /\ pc = "idle" => (Len(resp) = 1 /\ resp[1].error # "undefined")

\* C19 witness: of two creates issued together one failed and the other
\* succeeded, and the command has answered
C19_Witness ==
    /\ bg = "v3" /\ pc = "idle" /\ req.action = "sortTabs"
    /\ Len(v3Keys) = 2 /\ "create" \in failed /\ Cardinality(newIds) = 1
    /\ Cardinality(startOpen) = 2

\* C20: in recreate mode a close of an original window that fails is not
\* surfaced: sortTabs still answers with its success string.
C20_CloseFailureTolerated ==
    (bg = "v3" /\ pc = "idle" /\ req.action = "sortTabs" /\ failed = {"remove"})
        => resp = <<Result("Tabs sorted successfully.")>>

\* the moves the assignment calls for: every snapshot tab whose snapshot window
\* is not the window assigned to its key, to that window
movesNeeded ==
    {m \in {<<tabData[i].id, assign[k]>> : i \in 1..Len(tabData), k \in 1..Len(assign)} :
        \E i \in 1..Len(tabData), k \in 1..Len(assign) :
            /\ m = <<tabData[i].id, assign[k]>>
            /\ tldKeys(tabData)[k] = tabData[i].tld
            /\ tabData[i].windowId # assign[k]}
\* the move loop of the run is through
movePhaseOver == pc \in {"org_query", "org_remove"} \/ (pc = "idle" /\ "query" \in issued)

\* C21: when moves fail, and nothing else does, a move has still been issued
\* for every tab the assignment calls a move for, the reap step has run and
\* the command answers with its success string.
C21_MoveFailureDoesNotAbort ==
    (bg = "v2" /\ pc = "idle" /\ req.action = "sortTabsMove" /\ failed = {"move"})
        => /\ moveLog = movesNeeded
           /\ "query" \in issued
           /\ resp = <<Result("Tabs sorted successfully (Move).")>>

\* C21 witness: two moves were called for, a move failed, both were issued
C21_Witness ==
    /\ pc = "idle" /\ req.action = "sortTabsMove" /\ failed = {"move"}
    /\ Cardinality(movesNeeded) = 2 /\ Cardinality(moveLog) = 2

\* C22: a move is issued for a tab exactly when its snapshot window is not the
\* window assigned to its key, and a move that succeeds puts the tab at the
\* end of the strip of that window, leaving every other tab where it was.
C22_MoveIffMisplaced ==
    /\ []((bg = "v2" /\ Len(assign) = Len(tldKeys(tabData))) => moveLog \subseteq movesNeeded)
    /\ []((bg = "v2" /\ movePhaseOver) => moveLog = movesNeeded)
    /\ [][(pc = "org_move" /\ strip' # strip)
            => \E m \in moveLog :
                  /\ strip'[m[2]] = Append(SelectSeq(strip[m[2]], LAMBDA x : x # m[1]), m[1])
                  /\ \A w \in WinIds \ {m[2]} :
                        strip'[w] = SelectSeq(strip[w], LAMBDA x : x # m[1])]_vars

\* C22 witness: of three snapshot tabs one was moved and two were left alone
C22_Witness ==
    /\ pc = "idle" /\ req.action = "sortTabsMove" /\ succeeded /\ failed = {}
    /\ Len(tabData) = 3 /\ Cardinality(moveLog) = 1 /\ movesNeeded = moveLog

\* the windows that were candidates at assignment time: enumerated by
\* organizeTabsByTLD or created by its assignment loop
candidates == {exw[i].id : i \in 1..Len(exw)}
\* nobody but organizeTabsByTLD touched the host during the reap
quietReap == userAt \cap {"org_query", "org_remove"} = {}

C24_PhasesInOrder ==
    /\ []((bg = "v2" /\ (pc = "org_create" \/ Len(assign) < Len(tldKeys(tabData))))
            => moveLog = {})
    /\ []((bg = "v2" /\ pc \in {"org_query", "org_remove"}) => moveLog = movesNeeded)
    /\ [][/\ pc = "org_move" => pc' \in {"org_move", "org_query", "org_remove", "idle"}
          /\ pc \in {"org_query", "org_remove"} => pc' \in {"org_query", "org_remove", "idle"}]_vars

\* C24 witness: a run that created a window, moved a tab and closed a window
\* has returned
C24_Witness ==
    /\ pc = "idle" /\ req.action = "sortTabsMove" /\ succeeded
    /\ {"create", "move", "remove"} \subseteq issued
    /\ moveLog # {}

\* the tab handles of the snapshot group of key number k, in snapshot order
groupIds(k) ==
    LET g == tldGroup(tabData, tldKeys(tabData)[k])
    IN [i \in 1..Len(g) |-> g[i].id]
\* what the window assigned to key number k shows of that group, left to right
shownOfGroup(k) ==
    SelectSeq(strip[assign[k]],
              LAMBDA x : \E i \in 1..Len(groupIds(k)) : groupIds(k)[i] = x)

\* C25: after a sortTabsMove run in which every host call succeeded and nobody
\* interfered, the window assigned to a key shows the tabs of the key's group,
\* all of them, in the order they have in the snapshot.
C25_GroupOrderKept ==
    (bg = "v2" /\ pc = "idle" /\ req.action = "sortTabsMove" /\ succeeded
       /\ failed = {} /\ userAt = {})
        => \A k \in 1..Len(assign) : shownOfGroup(k) = groupIds(k)

\* C25 witness: a group of three tabs, one resident in the assigned window
\* and two moved into it
C25_Witness ==
    /\ pc = "idle" /\ req.action = "sortTabsMove" /\ succeeded
    /\ failed = {} /\ userAt = {}
    /\ \E k \in 1..Len(assign) :
          /\ Len(groupIds(k)) = 3
          /\ Cardinality({m \in moveLog : m[2] = assign[k]}) = 2
          /\ shownOfGroup(k) = groupIds(k)

\* the kinds of host call that change windows or tabs
mutations == {"create", "remove", "move"}

\* C26: while sortTabs is served, by either background script, a window
\* creation, window close or tab move has been issued only with the snapshot
\* of the run written to originalTabs, no step before the first such call
\* changes a window or a tab, and a run in which the enumeration or the write
\* failed has answered with an error, has issued no such call and has left
\* the open windows and the live tabs as they were.
C26_SnapshotBeforeMutation ==
    /\ []((req.action = "sortTabs" /\ issued \cap mutations # {})
            => originalTabs = [set |-> TRUE, rows |-> tabData])
    /\ []((pc = "idle" /\ req.action = "sortTabs"
             /\ failed \cap {"getAll", "storageSet"} # {})
            => /\ Len(resp) = 1 /\ resp[1].error # "undefined"
               /\ issued \cap mutations = {}
               /\ open = startOpen /\ liveTabs = startTabs)
    /\ [][(req'.action = "sortTabs" /\ issued' \cap mutations = {})
            => UNCHANGED <<open, strip, url>>]_vars

\* C26 witness: the write of originalTabs failed in a run that had tabs in
\* its snapshot, and the run answered with an error
C26_Witness ==
    /\ pc = "idle" /\ req.action = "sortTabs" /\ failed = {"storageSet"}
    /\ tabData # <<>> /\ ~succeeded
    /\ open = startOpen /\ liveTabs = startTabs

\* nobody touched the host between the snapshot and the assignment loop
quietSinceSnapshot == userAt \cap {"v2_store", "org_getAll", "org_create"} = {}

\* C29: a run of organizeTabsByTLD with nobody touching the host between the
\* snapshot and the assignment issues no window creation and assigns every
\* key a window that was enumerated; with nobody touching the host at all
\* since the request, every assigned window was open before the run and no
\* window is open that was not.
C29_QuietRunCreatesNoWindow ==
    /\ (bg = "v2" /\ quietSinceSnapshot)
         => /\ pc # "org_create"
            /\ "create" \notin issued
            /\ \A k \in 1..Len(assign) : \E i \in 1..Len(exw) : exw[i].id = assign[k]
    /\ (bg = "v2" /\ req # NoReq /\ userAt = {})
         => /\ open \subseteq startOpen
            /\ \A k \in 1..Len(assign) : assign[k] \in startOpen

\* C29 witness: two keys were assigned two windows and a tab was moved, in a
\* run the user touched the host only before the snapshot was taken
C29_Witness ==
    /\ pc = "idle" /\ req.action = "sortTabsMove" /\ succeeded
    /\ userAt = {"v2_collect"}
    /\ Len(assign) = 2 /\ assign[1] # assign[2] /\ moveLog # {}
    /\ "create" \notin issued

\* C27: whenever no startup load is under way, the tabOpenTimes record in
\* storage equals the in-memory map, and the map holds the recorded creation
\* time of exactly the tabs created and not yet removed.
C27_PersistedEqualsMemory ==
    (bg = "v2" /\ ~times.loading)
        => /\ times.stored = times.mem
           /\ times.mem = times.born

\* C28: the in-memory map holds, for every tab created and not yet removed,
\* the time onCreated recorded for it, whether a startup load is under way,
\* has completed or was never started.
C28_LoadKeepsRecordedTimes ==
    bg = "v2" => \A t \in TimeTabs : times.born[t] # 0 => times.mem[t] = times.born[t]

\* C30: in the popup a button is disabled for as long as the message it sent
\* has had no callback, and a button that is disabled is enabled again later,
\* whichever way the callback went.
C30_ButtonReenabled ==
    /\ [](\A b \in Buttons : popup.call[b] = "sent" => popup.btn[b] = "disabled")
    /\ \A b \in Buttons : (popup.btn[b] = "disabled") ~> (popup.btn[b] = "enabled")

====
